---- MODULE Spec2Model ----
(***************************************************************************)
(* Trace-context propagation, span lifecycle and metric recording of the   *)
(* otel-playground services (user-service, post-service, orchestrator).    *)
(*                                                                         *)
(* The services are net/http handlers registered on a mux that main wraps  *)
(* in otelhttp.NewHandler; the orchestrator calls them through an          *)
(* http.Client whose transport is otelhttp.NewTransport.  The W3C          *)
(* propagator (propagation.TraceContext), the SDK tracer and the otelhttp  *)
(* wrappers are modelled by what they do at the call sites named in        *)
(* MODEL_MAP.json.                                                         *)
(***************************************************************************)
EXTENDS Integers, Sequences, FiniteSets, TLC

\* ------------------------------------------------------------------------
\* Identifiers and span contexts
\* ------------------------------------------------------------------------

\* trace.TraceID is [16]byte, trace.SpanID is [8]byte.
TraceIDLen == 16
SpanIDLen == 8

Zeros(n) == [i \in 1..n |-> 0]

\* An identifier whose last byte is b and whose other bytes are zero.
IDOf(n, b) == [i \in 1..n |-> IF i = n THEN b ELSE 0]

NilTraceID == Zeros(TraceIDLen)
NilSpanID == Zeros(SpanIDLen)

\* trace.SpanContext{}: the zero value.
EmptySC == [tid |-> NilTraceID, sid |-> NilSpanID, flags |-> 0, remote |-> FALSE]

\* SpanContext.IsValid: non-zero trace id and non-zero span id.
IsValid(sc) == sc.tid # NilTraceID /\ sc.sid # NilSpanID

\* SpanContext.IsSampled: the sampled bit of the trace flags.
IsSampled(sc) == sc.flags % 2 = 1

\* ------------------------------------------------------------------------
\* The traceparent text format (propagation.TraceContext)
\* ------------------------------------------------------------------------

HexDigits == <<"0", "1", "2", "3", "4", "5", "6", "7",
               "8", "9", "a", "b", "c", "d", "e", "f">>

\* The value of each lower-case hex digit.
HexTable == [c \in {HexDigits[i] : i \in 1..16} |->
                (CHOOSE i \in 1..16 : HexDigits[i] = c) - 1]

IsLowerHex(c) == c \in DOMAIN HexTable

HexVal(c) == HexTable[c]

\* Variant: the two digits of a byte in the wrong order.
EncodeByte_LowFirst(b) == <<HexDigits[(b % 16) + 1], HexDigits[(b \div 16) + 1]>>

\* hex.Encode of one byte: two lower-case digits, high nibble first.
EncodeByte(b) == <<HexDigits[(b \div 16) + 1], HexDigits[(b % 16) + 1]>>

RECURSIVE EncodeHex(_)
EncodeHex(bs) ==
    IF bs = <<>> THEN <<>> ELSE EncodeByte(Head(bs)) \o EncodeHex(Tail(bs))

\* hex.Decode of an even-length string of lower-case hex digits.
DecodeHex(s) ==
    [i \in 1..(Len(s) \div 2) |-> HexVal(s[2 * i - 1]) * 16 + HexVal(s[2 * i])]

\* strings.Cut(h, "-"): the text before the first dash and the text after it.
RECURSIVE CutAt(_, _)
CutAt(h, i) ==
    IF i > Len(h) THEN [part |-> h, left |-> <<>>]
    ELSE IF h[i] = "-"
         THEN [part |-> SubSeq(h, 1, i - 1), left |-> SubSeq(h, i + 1, Len(h))]
         ELSE CutAt(h, i + 1)

Cut(h) == CutAt(h, 1)

\* extractPart: cut one dash-separated field of exactly n lower-case hex
\* digits off the header and decode it.
extractPart(h, n) ==
    LET c == Cut(h)
        good == Len(c.part) = n /\ \A i \in 1..Len(c.part) : IsLowerHex(c.part[i])
    IN [ok |-> good,
        bytes |-> IF good THEN DecodeHex(c.part) ELSE <<>>,
        left |-> c.left]

\* The highest traceparent version the propagator accepts is 254 (0xff is
\* reserved as invalid).
maxVersion == 254

\* Variant: data after the flags field is accepted under every version.
ExtractSC_AnyTrailing(carrier) ==
    LET h == carrier.traceparent
        ver == extractPart(h, 2)
        tid == extractPart(ver.left, 2 * TraceIDLen)
        sid == extractPart(tid.left, 2 * SpanIDLen)
        opt == extractPart(sid.left, 2)
        sc == [tid |-> tid.bytes, sid |-> sid.bytes,
               flags |-> opt.bytes[1] % 2, remote |-> TRUE]
    IN IF h = <<>> THEN EmptySC
       ELSE IF ~ver.ok THEN EmptySC
       ELSE IF ver.bytes[1] > maxVersion THEN EmptySC
       ELSE IF ~tid.ok THEN EmptySC
       ELSE IF ~sid.ok THEN EmptySC
       ELSE IF ~opt.ok THEN EmptySC
       ELSE IF ~IsValid(sc) THEN EmptySC
       ELSE sc

\* TraceContext.extract: parse the traceparent entry of a carrier.  Every
\* failure yields the empty (invalid) span context; nothing is raised.
ExtractSC(carrier) ==
    LET h == carrier.traceparent
        ver == extractPart(h, 2)
        tid == extractPart(ver.left, 2 * TraceIDLen)
        sid == extractPart(tid.left, 2 * SpanIDLen)
        opt == extractPart(sid.left, 2)
        sc == [tid |-> tid.bytes, sid |-> sid.bytes,
               flags |-> opt.bytes[1] % 2, remote |-> TRUE]
    IN IF h = <<>> THEN EmptySC
       ELSE IF ~ver.ok THEN EmptySC
       ELSE IF ver.bytes[1] > maxVersion THEN EmptySC
       ELSE IF ~tid.ok THEN EmptySC
       ELSE IF ~sid.ok THEN EmptySC
       ELSE IF ~opt.ok THEN EmptySC
       ELSE IF ver.bytes[1] = 0 /\ (opt.left # <<>> \/ opt.bytes[1] > 2) THEN EmptySC
       ELSE IF ~IsValid(sc) THEN EmptySC
       ELSE sc

\* The text "<version>-<trace id>-<span id>-<flags>", all in lower-case hex.
TraceParent(version, tid, sid, flags) ==
    EncodeByte(version) \o <<"-">> \o EncodeHex(tid) \o <<"-">>
    \o EncodeHex(sid) \o <<"-">> \o EncodeByte(flags)

\* TraceContext.Inject: write the version-00 traceparent of the context, with
\* only the sampled bit of its flags, into the carrier's traceparent entry,
\* overwriting it; an invalid context writes nothing.
InjectSC(sc, carrier) ==
    IF ~IsValid(sc) THEN carrier
    ELSE [carrier EXCEPT !.traceparent =
             TraceParent(0, sc.tid, sc.sid, sc.flags % 2)]

\* An http.Header without a traceparent entry (Get returns "").
EmptyCarrier == [traceparent |-> <<>>]

\* ------------------------------------------------------------------------
\* Bounds and input sets
\* ------------------------------------------------------------------------

\* Number of inbound requests a service process receives (served concurrently).
NumReq == 2
\* Request slots: the orchestrator makes up to five calls in a run.
NumSlot == 5

Req == 1..NumSlot

\* "user" and "post" are cmd/user and cmd/post; "user0" is the earlier
\* tracing-only revision of the user service.
Services == {"user", "post", "user0"}

Routes(svc) ==
    CASE svc = "user" -> {"/users", "/health", "/error"}
      [] svc = "post" -> {"/posts", "/posts/by-user", "/health", "/error"}
      [] svc = "user0" -> {"/users", "/health"}

AllRoutes == {"/users", "/posts", "/posts/by-user", "/health", "/error"}

Methods == {"GET", "POST"}

\* Span contexts a remote caller may send; generated identifiers start at 1
\* and stay below these.
CallerSampled == [tid |-> IDOf(TraceIDLen, 161), sid |-> IDOf(SpanIDLen, 178),
                  flags |-> 1, remote |-> FALSE]
CallerUnsampled == [tid |-> IDOf(TraceIDLen, 162), sid |-> IDOf(SpanIDLen, 179),
                    flags |-> 0, remote |-> FALSE]

\* A traceparent value with a character that is not a hex digit.
CorruptHeader ==
    [traceparent |-> [i \in 1..55 |->
        IF i = 4 THEN "g" ELSE InjectSC(CallerSampled, EmptyCarrier).traceparent[i]]]

\* Request headers: none, a valid sampled context, a valid unsampled context,
\* a corrupt one.
HeaderInputs ==
    {EmptyCarrier, InjectSC(CallerSampled, EmptyCarrier),
     InjectSC(CallerUnsampled, EmptyCarrier), CorruptHeader}

\* Values of the identifier query parameter: absent, non-numeric, the id of
\* an existing row, the id of no row.
ParamInputs == {<<>>, <<"a", "b">>, <<"1">>, <<"9", "9">>}

\* Identifiers present in the users / posts tables.
Rows == {1}

\* strconv.Atoi on a non-empty string: the decimal value, or an error (-1)
\* when a character is not a digit.
RECURSIVE AtoiFrom(_, _)
AtoiFrom(s, acc) ==
    IF s = <<>> THEN acc
    ELSE IF Head(s) \in {"0", "1", "2", "3", "4", "5", "6", "7", "8", "9"}
         THEN AtoiFrom(Tail(s), acc * 10 + HexVal(Head(s)))
         ELSE -1

\* Variant: the conversion error is dropped and the value 0 is used.
Atoi_ErrorDropped(s) == IF AtoiFrom(s, 0) = -1 THEN 0 ELSE AtoiFrom(s, 0)

Atoi(s) == AtoiFrom(s, 0)

\* ------------------------------------------------------------------------
\* State
\* ------------------------------------------------------------------------

VARIABLES
    pc,                 \* per request: position in the otelhttp wrapper / handler
    req,                \* per request: what arrived (service, route, method, header, id)
    rctx,               \* per request: r.Context() as set by otelhttp
    ctx,                \* per request: the handler's ctx variable
    defers,             \* per request: the handler's pending deferred calls (LIFO)
    events,             \* per request: what the request did, in order
    resp,               \* per request: the response written so far
    spans,              \* every span started in the process, in start order
    nextID,             \* the id generator
    activeConnections,  \* per service: value of the in-flight up/down counter
    requestCounter,     \* per service and route: value of the request counter
    responseTime,       \* per service and route: number of histogram observations
    prop,               \* a propagator exercised on its own: context in, carrier, context out
    orch                \* the orchestrator process: position, contexts, call in flight

svcVars == <<pc, req, rctx, ctx, defers, events, resp, spans, nextID,
             activeConnections, requestCounter, responseTime>>

vars == <<svcVars, prop, orch>>

\* context.Background(): no span.
NoContext == [sc |-> EmptySC, span |-> 0]

NoRequest == [svc |-> "", route |-> "", method |-> "", header |-> EmptyCarrier,
              id |-> <<>>, db |-> "", enc |-> "", abort |-> ""]

NoResponse == [status |-> 0, body |-> "", header |-> EmptyCarrier]

\* The propagator is not exercised on its own.
PropOff == [phase |-> "off", injected |-> FALSE, ctx |-> EmptySC,
            carrier0 |-> EmptyCarrier,
            carrier |-> EmptyCarrier, out |-> EmptySC]

InitService ==
    /\ pc = [r \in Req |-> "new"]
    /\ req = [r \in Req |-> NoRequest]
    /\ rctx = [r \in Req |-> NoContext]
    /\ ctx = [r \in Req |-> NoContext]
    /\ defers = [r \in Req |-> <<>>]
    /\ events = [r \in Req |-> <<>>]
    /\ resp = [r \in Req |-> NoResponse]
    /\ spans = <<>>
    /\ nextID = 1
    /\ activeConnections = [s \in Services |-> 0]
    /\ requestCounter = [s \in Services |-> [p \in AllRoutes |-> 0]]
    /\ responseTime = [s \in Services |-> [p \in AllRoutes |-> 0]]

\* A Go error value by what its text tells: nil or not, the downstream status
\* code it names (0: none) and the downstream body it quotes ("": none).
NoError == [nil |-> TRUE, status |-> 0, body |-> "", text |-> ""]

\* The orchestrator is not running.
OrchOff == [pc |-> "off", phase |-> "idle", mainCtx |-> NoContext,
            ctx |-> NoContext, client |-> 0, slot |-> 0, calls |-> 0,
            manual |-> EmptyCarrier, sent |-> EmptyCarrier, err |-> NoError,
            demo |-> 0, ops |-> <<>>, log |-> <<>>, shutdown |-> {}]

Init == InitService /\ prop = PropOff /\ orch = OrchOff

\* ------------------------------------------------------------------------
\* Tracer and instruments
\* ------------------------------------------------------------------------

\* Variant: a root span takes a fixed trace id instead of a fresh one.
StartSpan_StaleTraceID(parent, name, r, by) ==
    LET root == ~IsValid(parent.sc)
    IN [tid |-> IF root THEN IDOf(TraceIDLen, 1) ELSE parent.sc.tid,
        sid |-> IDOf(SpanIDLen, nextID),
        parent |-> IF root THEN NilSpanID ELSE parent.sc.sid,
        sampled |-> IF root THEN TRUE ELSE IsSampled(parent.sc),
        name |-> name, req |-> r, by |-> by,
        ends |-> 0, status |-> "Unset", desc |-> "", errors |-> 0, attrs |-> {}]

\* Tracer.Start(parent, name): a child of the parent's span context when that
\* is valid (same trace id, parent = its span id, sampled as the parent), a
\* root span otherwise (fresh trace id, no parent, sampled); the span id is
\* always fresh.
StartSpan(parent, name, r, by) ==
    LET root == ~IsValid(parent.sc)
    IN [tid |-> IF root THEN IDOf(TraceIDLen, nextID) ELSE parent.sc.tid,
        sid |-> IDOf(SpanIDLen, nextID),
        parent |-> IF root THEN NilSpanID ELSE parent.sc.sid,
        sampled |-> IF root THEN TRUE ELSE IsSampled(parent.sc),
        name |-> name, req |-> r, by |-> by,
        ends |-> 0, status |-> "Unset", desc |-> "", errors |-> 0, attrs |-> {}]

\* The span context of a span.
SpanSC(s) == [tid |-> s.tid, sid |-> s.sid,
              flags |-> IF s.sampled THEN 1 ELSE 0, remote |-> FALSE]

\* trace.SpanFromContext(c).IsRecording(): c carries a span of this process
\* that is sampled and has not ended.
IsRecording(c) ==
    c.span # 0 /\ spans[c.span].sampled /\ spans[c.span].ends = 0

\* The exemplar the SDK attaches to a measurement made under context c: the
\* trace and span id of c's span context when it is sampled, none otherwise.
NoExemplar == [tid |-> NilTraceID, sid |-> NilSpanID]

\* Variant: no exemplar is ever attached.
Exemplar_Never(c) == NoExemplar

\* TraceBased exemplar filter of the meter provider.
Exemplar(c) ==
    IF IsSampled(c.sc) THEN [tid |-> c.sc.tid, sid |-> c.sc.sid] ELSE NoExemplar

\* One entry of a request's event log.
Ev(op, val, route, method, ex, span) ==
    [op |-> op, val |-> val, route |-> route, method |-> method, ex |-> ex,
     span |-> span, code |-> ""]

\* The http.response.status_code attribute of a counter sample: set only by
\* the errorHandler closures, to the literal 500 (cmd/user) or 503 (cmd/post).
StatusAttr(svc, route) ==
    IF route # "/error" THEN "" ELSE IF svc = "user" THEN "500" ELSE "503"

\* Variant: the counter sample is tagged with a fixed method.
EvCount_FixedMethod(r, route, c) == Ev("count", 1, route, "GET", Exemplar(c), 0)

EvActive(val) == Ev("active", val, "", "", NoExemplar, 0)
\* requestCounter.Add(ctx, 1, WithAttributes(method, route)) and
\* responseTime.Record(ctx, duration, WithAttributes(method, route)).
EvCount(r, route, c) ==
    [Ev("count", 1, route, req[r].method, Exemplar(c), 0)
        EXCEPT !.code = StatusAttr(req[r].svc, route)]
EvDuration(r, route, c) == Ev("duration", 1, route, req[r].method, Exemplar(c), 0)
EvSpan(op, i) == Ev(op, 0, "", "", NoExemplar, i)

\* ------------------------------------------------------------------------
\* Helpers over the per-request state
\* ------------------------------------------------------------------------

Log(r, evs) == events' = [events EXCEPT ![r] = @ \o evs]

Defer(fn, span) == [fn |-> fn, span |-> span]

\* Variant: the decrement is not what gets deferred.
deferActiveDec_Forgotten == Defer("inject", 0)

\* defer s.activeConnections.Add(r.Context(), -1)
deferActiveDec == Defer("dec", 0)

\* Variant: the span's End is not what gets deferred.
deferSpanEnd_Forgotten(i) == Defer("inject", i)

\* defer span.End()
deferSpanEnd(i) == Defer("end", i)

\* Variant: the metrics closure is not what gets deferred.
deferMetrics_Forgotten == Defer("inject", 0)

\* defer func() { requestCounter.Add(ctx, 1, ...); responseTime.Record(ctx, ...) }()
deferMetrics == Defer("metrics", 0)

\* defer otel.GetTextMapPropagator().Inject(ctx, HeaderCarrier(w.Header()))
deferInject == Defer("inject", 0)

\* Variant: a valid incoming context is ignored.
Extract_Ignored(parent, header) == parent

\* TextMapPropagator.Extract(parent, header): the parent context when the
\* header holds no valid traceparent, otherwise the parent with the remote
\* span context in place of its span.
Extract(parent, header) ==
    LET sc == ExtractSC(header)
    IN IF IsValid(sc) THEN [sc |-> sc, span |-> 0] ELSE parent

\* Variant: the calls take effect on a span that has ended.
recordError_OnEnded(ss, i, description) ==
    IF i = 0 \/ ~ss[i].sampled THEN ss
    ELSE [ss EXCEPT ![i].errors = @ + 1, ![i].status = "Error",
                    ![i].desc = description]

\* recordError(span, err, description) with a non-nil err: span.RecordError
\* and span.SetStatus(codes.Error, description).  Both do nothing on a span
\* that is not recording.
recordError(ss, i, description) ==
    IF i = 0 \/ ~ss[i].sampled \/ ss[i].ends > 0 THEN ss
    ELSE [ss EXCEPT ![i].errors = @ + 1, ![i].status = "Error",
                    ![i].desc = description]

\* span.SetAttributes(kv...): nothing on a span that is not recording.
SetAttributes(ss, i, kv) ==
    IF i = 0 \/ ~ss[i].sampled \/ ss[i].ends > 0 THEN ss
    ELSE [ss EXCEPT ![i].attrs = @ \cup kv]

\* The attributes errorHandler sets on the span next to the error.
ErrorAttrs == {"http.response.status_code", "error.type"}

\* if span := SpanFromContext(c); span.IsRecording() { recordError(...) }
recordErrorIfRecording(ss, c, description) ==
    IF c.span # 0 /\ ss[c.span].sampled /\ ss[c.span].ends = 0
    THEN recordError(ss, c.span, description)
    ELSE ss

\* Span.End(): counted per call.
EndSpan(ss, i) == [ss EXCEPT ![i].ends = @ + 1]

\* Variant: a traceparent header that does not parse is answered with 400.
HttpError_Surfaced(r, status, body) ==
    IF req[r].header # EmptyCarrier /\ ~IsValid(ExtractSC(req[r].header))
    THEN [resp[r] EXCEPT !.status = 400, !.body = "invalid traceparent"]
    ELSE [resp[r] EXCEPT !.status = status, !.body = body]

\* Variant: the deliberate-failure endpoint rejects a request that carries a
\* query parameter.
HttpError_ParamRejected(r, status, body) ==
    IF req[r].route = "/error" /\ req[r].id # <<>>
    THEN [resp[r] EXCEPT !.status = 400, !.body = "unexpected parameter"]
    ELSE [resp[r] EXCEPT !.status = status, !.body = body]

\* http.Error(w, body, status); the headers set before it are sent with it.
HttpError(r, status, body) == [resp[r] EXCEPT !.status = status, !.body = body]

HandlerName(svc, route) ==
    CASE route = "/users" -> "getUserHandler"
      [] route = "/posts" -> "getPostHandler"
      [] route = "/posts/by-user" -> "getUserPostsHandler"
      [] route = "/health" -> IF svc = "user0" THEN "healthCheck" ELSE "healthHandler"
      [] route = "/error" -> "errorHandler"

IsLookup(route) == route \in {"/users", "/posts", "/posts/by-user"}

\* ------------------------------------------------------------------------
\* otelhttp.NewHandler(mux, ...): the wrapper around every handler
\* ------------------------------------------------------------------------

\* Variant: the wrapper passes the request on with a span whose context is
\* not valid (as a no-op tracer provider would give).
ServerContext_Invalid(s, i) == [sc |-> EmptySC, span |-> i]

\* r.WithContext(ctx): the context the wrapper hands to the handler carries
\* the server span.
ServerContext(s, i) == [sc |-> SpanSC(s), span |-> i]

\* A request arrives.  The wrapper extracts the trace context of the request
\* headers, starts the server span under it and passes the request on with
\* that span in r.Context().
Serve(r, svc, route, method, header, id) ==
    /\ pc[r] = "new"
    /\ LET s == StartSpan(Extract(NoContext, header), svc, r, "otelhttp")
       IN /\ spans' = Append(spans, s)
          /\ rctx' = [rctx EXCEPT ![r] = ServerContext(s, Len(spans) + 1)]
          /\ Log(r, <<EvSpan("span_start", Len(spans) + 1)>>)
    /\ req' = [req EXCEPT ![r] = [svc |-> svc, route |-> route, method |-> method,
                                  header |-> header, id |-> id,
                                  db |-> "", enc |-> "", abort |-> ""]]
    /\ nextID' = nextID + 1
    /\ pc' = [pc EXCEPT ![r] = "handler"]
    /\ UNCHANGED <<ctx, defers, resp, activeConnections, requestCounter, responseTime>>

\* Inputs explored under concurrency; a request with another method or with an
\* unsampled caller context is explored without a concurrent request.
Ordinary(method, header) ==
    method = "GET" /\ header # InjectSC(CallerUnsampled, EmptyCarrier)

\* A request from an arbitrary client arrives at a service process.  Requests
\* are numbered in arrival order and all requests of one run go to the same
\* process.
otelhttpServe(r) ==
    /\ pc[r] = "new"
    /\ r <= NumReq
    /\ \A q \in 1..(r - 1) :
          /\ pc[q] # "new"
          /\ Ordinary(req[q].method, req[q].header)
          /\ IsLookup(req[q].route) \/ req[q].id = <<>>
    /\ \E svc \in Services, method \in Methods, header \in HeaderInputs :
       \E route \in Routes(svc), id \in ParamInputs :
          /\ \A q \in Req : pc[q] # "new" => req[q].svc = svc
          /\ Ordinary(method, header) \/ r = 1
          /\ IsLookup(route) \/ id = <<>> \/ r = 1
          /\ Serve(r, svc, route, method, header, id)
    /\ UNCHANGED <<prop, orch>>

\* The handler has returned: the wrapper sets the server span's status from
\* the response status code (Error, without description, for 5xx) and ends
\* the span.
otelhttpFinish(r) ==
    /\ pc[r] = "served"
    /\ LET i == rctx[r].span
           st == IF resp[r].status >= 500 /\ spans[i].sampled /\ spans[i].ends = 0
                 THEN [spans EXCEPT ![i].status = "Error", ![i].desc = ""]
                 ELSE spans
       IN /\ spans' = EndSpan(st, i)
          /\ Log(r, <<EvSpan("span_end", i)>>)
    /\ pc' = [pc EXCEPT ![r] = "done"]
    /\ UNCHANGED <<prop, orch>>
    /\ UNCHANGED <<req, rctx, ctx, defers, resp, nextID,
                   activeConnections, requestCounter, responseTime>>

\* ------------------------------------------------------------------------
\* Handler prologues: everything up to the first statement of the body
\* ------------------------------------------------------------------------

\* getUserHandler, getPostHandler, getUserPostsHandler of cmd/user and
\* cmd/post: in-flight +1 and its deferred -1, Extract, a span of the
\* handler's own (with its deferred End) only when the context carries no
\* valid span context, and the deferred metrics closure.
LookupHandlerEntry(r) ==
    /\ pc[r] = "handler"
    /\ req[r].svc \in {"user", "post"}
    /\ IsLookup(req[r].route)
    /\ activeConnections' = [activeConnections EXCEPT ![req[r].svc] = @ + 1]
    /\ LET c == Extract(rctx[r], req[r].header)
           s == StartSpan(c, HandlerName(req[r].svc, req[r].route), r, "handler")
           i == Len(spans) + 1
       IN IF ~IsValid(c.sc)
          THEN /\ spans' = Append(spans, s)
               /\ nextID' = nextID + 1
               /\ ctx' = [ctx EXCEPT ![r] = [sc |-> SpanSC(s), span |-> i]]
               /\ defers' = [defers EXCEPT ![r] =
                                <<deferActiveDec, deferSpanEnd(i), deferMetrics>>]
               /\ Log(r, <<EvActive(1), EvSpan("span_start", i)>>)
          ELSE /\ ctx' = [ctx EXCEPT ![r] = c]
               /\ defers' = [defers EXCEPT ![r] = <<deferActiveDec, deferMetrics>>]
               /\ Log(r, <<EvActive(1)>>)
               /\ UNCHANGED <<spans, nextID>>
    /\ pc' = [pc EXCEPT ![r] = "body"]
    /\ UNCHANGED <<prop, orch>>
    /\ UNCHANGED <<req, rctx, resp, requestCounter, responseTime>>

\* healthHandler of cmd/user and cmd/post: in-flight +1, deferred -1 and the
\* deferred metrics closure, which records under r.Context().
healthHandlerEntry(r) ==
    /\ pc[r] = "handler"
    /\ req[r].svc \in {"user", "post"}
    /\ req[r].route = "/health"
    /\ activeConnections' = [activeConnections EXCEPT ![req[r].svc] = @ + 1]
    /\ ctx' = [ctx EXCEPT ![r] = rctx[r]]
    /\ defers' = [defers EXCEPT ![r] = <<deferActiveDec, deferMetrics>>]
    /\ Log(r, <<EvActive(1)>>)
    /\ pc' = [pc EXCEPT ![r] = "body"]
    /\ UNCHANGED <<prop, orch>>
    /\ UNCHANGED <<req, rctx, resp, spans, nextID, requestCounter, responseTime>>

\* errorHandler of cmd/user and cmd/post: in-flight +1, deferred -1, Extract
\* and the deferred metrics closure; no span of its own.
errorHandlerEntry(r) ==
    /\ pc[r] = "handler"
    /\ req[r].svc \in {"user", "post"}
    /\ req[r].route = "/error"
    /\ activeConnections' = [activeConnections EXCEPT ![req[r].svc] = @ + 1]
    /\ ctx' = [ctx EXCEPT ![r] = Extract(rctx[r], req[r].header)]
    /\ defers' = [defers EXCEPT ![r] = <<deferActiveDec, deferMetrics>>]
    /\ Log(r, <<EvActive(1)>>)
    /\ pc' = [pc EXCEPT ![r] = "body"]
    /\ UNCHANGED <<prop, orch>>
    /\ UNCHANGED <<req, rctx, resp, spans, nextID, requestCounter, responseTime>>

\* getUserHandler and healthHandler of the tracing-only user service: Extract,
\* then always a span of the handler's own with its deferred End; no
\* instruments.
TracedHandlerEntry(r) ==
    /\ pc[r] = "handler"
    /\ req[r].svc = "user0"
    /\ LET c == Extract(rctx[r], req[r].header)
           s == StartSpan(c, HandlerName(req[r].svc, req[r].route), r, "handler")
           i == Len(spans) + 1
       IN /\ spans' = Append(spans, s)
          /\ ctx' = [ctx EXCEPT ![r] = [sc |-> SpanSC(s), span |-> i]]
          /\ defers' = [defers EXCEPT ![r] = <<deferSpanEnd(i)>>]
          /\ Log(r, <<EvSpan("span_start", i)>>)
    /\ nextID' = nextID + 1
    /\ pc' = [pc EXCEPT ![r] = "body"]
    /\ UNCHANGED <<prop, orch>>
    /\ UNCHANGED <<req, rctx, resp, activeConnections, requestCounter, responseTime>>

\* ------------------------------------------------------------------------
\* Handler bodies: from parameter validation to the return statement
\* ------------------------------------------------------------------------

Noun(route) == IF route = "/posts" THEN "post" ELSE "user"

ParamName(route) ==
    CASE route = "/users" -> "user id"
      [] route = "/posts" -> "post id"
      [] route = "/posts/by-user" -> "user_id"

\* What the data collaborator may do on a query: a single-row lookup answers
\* or fails; a multi-row query may also fail while scanning a row or while
\* iterating (rows.Next() returning false on an error).
DbOutcomes(route) ==
    IF route = "/posts/by-user"
    THEN {"ok", "query_error", "scan_error", "iter_error"}
    ELSE {"ok", "error"}

\* Variant: getUserPosts checks rows.Err() after the loop.
LookupResult_RowsErrChecked(route, n, db) ==
    IF route = "/posts/by-user"
    THEN IF db \in {"query_error", "scan_error", "iter_error"} THEN "error"
         ELSE "found"
    ELSE IF db = "error" THEN "error"
         ELSE IF n \in Rows THEN "found" ELSE "norows"

\* Result of the lookup: "found", "norows" (sql.ErrNoRows) or "error".
\* getUserPosts returns the error of QueryContext and of rows.Scan; when
\* rows.Next() ends the loop it returns what it has read, rows.Err()
\* unchecked.
LookupResult(route, n, db) ==
    IF route = "/posts/by-user"
    THEN IF db \in {"query_error", "scan_error"} THEN "error" ELSE "found"
    ELSE IF db = "error" THEN "error"
         ELSE IF n \in Rows THEN "found" ELSE "norows"

\* The JSON body of a successful lookup.
RecordBody(route, n, db) ==
    CASE route = "/users" -> "user#1"
      [] route = "/posts" -> "post#1"
      [] route = "/posts/by-user" ->
            IF db = "ok" /\ n \in Rows THEN "[post#1]" ELSE "null"

EncOutcomes == {"ok", "fail"}

\* Variant: the Inject runs after the response has been written, so the
\* headers sent do not hold it.
InjectedHeader_TooLate(r) == resp[r].header

\* otel.GetTextMapPropagator().Inject(ctx, HeaderCarrier(w.Header())) before
\* the first write: the response headers sent hold the traceparent of ctx.
InjectedHeader(r) == InjectSC(ctx[r].sc, resp[r].header)

\* The part of the three lookup handlers shared by every revision: validate
\* the parameter, look the record up, answer.  `traced` is whether getUser /
\* getPost and the handler record lookup errors on the span of ctx (they do
\* in cmd/user and cmd/post, except in the by-user path).
LookupAnswer(r, ss, traced) ==
    LET route == req[r].route
        n == Atoi(req[r].id)
    IN IF req[r].id = <<>>
       THEN /\ resp' = [resp EXCEPT ![r] =
                           HttpError(r, 400, ParamName(route) \o " is required")]
            /\ spans' = ss
            /\ UNCHANGED req
       ELSE IF n = -1
       THEN /\ resp' = [resp EXCEPT ![r] =
                           HttpError(r, 400, "invalid " \o ParamName(route))]
            /\ spans' = ss
            /\ UNCHANGED req
       ELSE \E db \in DbOutcomes(route) :
            LET res == LookupResult(route, n, db)
                s1 == IF traced /\ res # "found"
                      THEN recordErrorIfRecording(ss, ctx[r],
                               "Failed to scan " \o Noun(route) \o " data")
                      ELSE ss
                s2 == IF traced /\ res = "norows"
                      THEN recordErrorIfRecording(s1, ctx[r],
                               IF route = "/posts" THEN "Post not found"
                                                   ELSE "User not found")
                      ELSE IF traced /\ res = "error"
                      THEN recordErrorIfRecording(s1, ctx[r],
                               "Failed to get " \o Noun(route))
                      ELSE s1
            IN /\ spans' = s2
               /\ CASE res = "norows" ->
                         /\ resp' = [resp EXCEPT ![r] =
                                        HttpError(r, 404, Noun(route) \o " not found")]
                         /\ req' = [req EXCEPT ![r].db = db]
                    [] res = "error" ->
                         /\ resp' = [resp EXCEPT ![r] =
                                        HttpError(r, 500, "internal server error")]
                         /\ req' = [req EXCEPT ![r].db = db]
                    [] res = "found" ->
                         \E enc \in EncOutcomes :
                            /\ req' = [req EXCEPT ![r].db = db, ![r].enc = enc]
                            /\ resp' = [resp EXCEPT ![r] =
                                  [status |-> IF enc = "ok" THEN 200 ELSE 500,
                                   body |-> IF enc = "ok" THEN RecordBody(route, n, db)
                                            ELSE "failed to encode response",
                                   header |-> InjectedHeader(r)]]

\* Body of getUserHandler, getPostHandler, getUserPostsHandler (cmd/user,
\* cmd/post).
LookupHandlerBody(r) ==
    /\ pc[r] = "body"
    /\ req[r].svc \in {"user", "post"}
    /\ IsLookup(req[r].route)
    /\ LookupAnswer(r, spans, req[r].route # "/posts/by-user")
    /\ req[r].abort = "canceled" => req'[r].db \notin {"ok", "iter_error"}
    /\ LET i == ctx[r].span
           n == IF i = 0 THEN 0 ELSE spans'[i].errors - spans[i].errors
       IN Log(r, [k \in 1..n |-> EvSpan("record_error", i)])
    /\ pc' = [pc EXCEPT ![r] = "exit"]
    /\ UNCHANGED <<prop, orch>>
    /\ UNCHANGED <<rctx, ctx, defers, nextID,
                   activeConnections, requestCounter, responseTime>>

\* Body of healthHandler (cmd/user, cmd/post): always 200 with the fixed
\* payload.
healthHandlerBody(r) ==
    /\ pc[r] = "body"
    /\ req[r].svc \in {"user", "post"}
    /\ req[r].route = "/health"
    /\ resp' = [resp EXCEPT ![r] =
                   [status |-> 200,
                    body |-> "{status:ok,service:" \o req[r].svc \o "-service}",
                    header |-> resp[r].header]]
    /\ pc' = [pc EXCEPT ![r] = "exit"]
    /\ UNCHANGED <<prop, orch>>
    /\ UNCHANGED <<req, rctx, ctx, defers, events, spans, nextID,
                   activeConnections, requestCounter, responseTime>>

\* Body of errorHandler: record the intentional error on the span of ctx when
\* it is recording, then answer 500 (user-service, after deferring an Inject
\* into the response headers) or 503 (post-service).
errorHandlerBody(r) ==
    /\ pc[r] = "body"
    /\ req[r].svc \in {"user", "post"}
    /\ req[r].route = "/error"
    /\ IF IsRecording(ctx[r])
       THEN /\ spans' = SetAttributes(
                            recordError(spans, ctx[r].span,
                                IF req[r].svc = "user" THEN "Intentional test error"
                                ELSE "Database connection failed"),
                            ctx[r].span, ErrorAttrs)
            /\ Log(r, <<EvSpan("record_error", ctx[r].span),
                        EvSpan("set_attributes", ctx[r].span)>>)
       ELSE UNCHANGED <<spans, events>>
    /\ IF req[r].svc = "user"
       THEN /\ defers' = [defers EXCEPT ![r] = Append(@, deferInject)]
            /\ resp' = [resp EXCEPT ![r] =
                           HttpError(r, 500, "This is a test error endpoint")]
       ELSE /\ UNCHANGED defers
            /\ resp' = [resp EXCEPT ![r] =
                           HttpError(r, 503, "Database temporarily unavailable")]
    /\ pc' = [pc EXCEPT ![r] = "exit"]
    /\ UNCHANGED <<prop, orch>>
    /\ UNCHANGED <<req, rctx, ctx, nextID,
                   activeConnections, requestCounter, responseTime>>

\* Body of getUserHandler in the tracing-only user service: as above, but the
\* lookup runs inside a "getUser" span that getUser starts and ends, and no
\* error is recorded on any span.
TracedLookupBody(r) ==
    /\ pc[r] = "body"
    /\ req[r].svc = "user0"
    /\ req[r].route = "/users"
    /\ IF req[r].id # <<>> /\ Atoi(req[r].id) # -1
       THEN LET s == StartSpan(ctx[r], "getUser", r, "handler")
                i == Len(spans) + 1
            IN /\ LookupAnswer(r, EndSpan(Append(spans, s), i), FALSE)
               /\ nextID' = nextID + 1
               /\ Log(r, <<EvSpan("span_start", i), EvSpan("span_end", i)>>)
       ELSE /\ LookupAnswer(r, spans, FALSE)
            /\ UNCHANGED <<nextID, events>>
    /\ pc' = [pc EXCEPT ![r] = "exit"]
    /\ UNCHANGED <<prop, orch>>
    /\ UNCHANGED <<rctx, ctx, defers, activeConnections, requestCounter, responseTime>>

\* Body of healthHandler in the tracing-only user service: inject, then 200.
TracedHealthBody(r) ==
    /\ pc[r] = "body"
    /\ req[r].svc = "user0"
    /\ req[r].route = "/health"
    /\ resp' = [resp EXCEPT ![r] =
                   [status |-> 200, body |-> "{status:ok,service:user-service}",
                    header |-> InjectSC(ctx[r].sc, resp[r].header)]]
    /\ pc' = [pc EXCEPT ![r] = "exit"]
    /\ UNCHANGED <<prop, orch>>
    /\ UNCHANGED <<req, rctx, ctx, defers, events, spans, nextID,
                   activeConnections, requestCounter, responseTime>>

\* ------------------------------------------------------------------------
\* Handler epilogue: the deferred calls, last deferred first
\* ------------------------------------------------------------------------

\* Variant: the new value is computed from a value read before any other
\* request wrote (a lost update).
Accumulate_Stale(inst, svc, route) == [inst EXCEPT ![svc][route] = 1]

\* Int64Counter.Add(ctx, 1, attrs) and Float64Histogram.Record(ctx, d, attrs)
\* of the SDK: one more sample in the stream of the attribute set, applied
\* atomically (the aggregation holds a lock).
Accumulate(inst, svc, route) == [inst EXCEPT ![svc][route] = @ + 1]

\* Variant: the deferred calls run in the order they were deferred.
NextDeferred_FirstIn(ds) == 1

\* Which pending deferred call runs next: the one deferred last.
NextDeferred(ds) == Len(ds)

RunDeferred(r) ==
    /\ pc[r] = "exit"
    /\ defers[r] # <<>>
    /\ LET d == defers[r][NextDeferred(defers[r])]
           svc == req[r].svc
           route == req[r].route
       IN CASE d.fn = "dec" ->
                 /\ activeConnections' = [activeConnections EXCEPT ![svc] = @ - 1]
                 /\ Log(r, <<EvActive(-1)>>)
                 /\ UNCHANGED <<spans, requestCounter, responseTime>>
            [] d.fn = "end" ->
                 /\ spans' = EndSpan(spans, d.span)
                 /\ Log(r, <<EvSpan("span_end", d.span)>>)
                 /\ UNCHANGED <<activeConnections, requestCounter, responseTime>>
            [] d.fn = "metrics" ->
                 /\ requestCounter' = Accumulate(requestCounter, svc, route)
                 /\ responseTime' = Accumulate(responseTime, svc, route)
                 /\ Log(r, <<EvCount(r, route, ctx[r]), EvDuration(r, route, ctx[r])>>)
                 /\ UNCHANGED <<spans, activeConnections>>
            [] d.fn = "inject" ->
                 \* the response has been written: the header set now is not sent
                 /\ Log(r, <<Ev("inject", 0, "", "", NoExemplar, 0)>>)
                 /\ UNCHANGED <<spans, activeConnections, requestCounter, responseTime>>
    /\ defers' = [defers EXCEPT ![r] =
                     SubSeq(@, 1, NextDeferred(@) - 1)
                     \o SubSeq(@, NextDeferred(@) + 1, Len(@))]
    /\ pc' = [pc EXCEPT ![r] = IF Len(defers[r]) = 1 THEN "served" ELSE "exit"]
    /\ UNCHANGED <<prop, orch>>
    /\ UNCHANGED <<req, rctx, ctx, resp, nextID>>

\* ------------------------------------------------------------------------
\* Specification of one service process
\* ------------------------------------------------------------------------

Next ==
    \E r \in Req :
        \/ otelhttpServe(r)
        \/ LookupHandlerEntry(r)
        \/ healthHandlerEntry(r)
        \/ errorHandlerEntry(r)
        \/ TracedHandlerEntry(r)
        \/ LookupHandlerBody(r)
        \/ healthHandlerBody(r)
        \/ errorHandlerBody(r)
        \/ TracedLookupBody(r)
        \/ TracedHealthBody(r)
        \/ RunDeferred(r)
        \/ otelhttpFinish(r)

Spec == Init /\ [][Next]_vars

\* ------------------------------------------------------------------------
\* A service process whose requests may be cancelled or whose handlers panic
\* ------------------------------------------------------------------------

\* The client goes away while its request is being handled: r.Context() is
\* cancelled.  The handler is not interrupted; a query it makes under the
\* cancelled context fails.
ClientDisconnect(r) ==
    /\ pc[r] \in {"handler", "body"}
    /\ req[r].svc \in {"user", "post"}
    /\ req[r].abort = ""
    /\ req' = [req EXCEPT ![r].abort = "canceled"]
    /\ UNCHANGED <<pc, rctx, ctx, defers, events, resp, spans, nextID,
                   activeConnections, requestCounter, responseTime, prop, orch>>

\* Variant: what the handler deferred does not run when it panics.
Unwind_Nothing(ds) == <<>>

\* The deferred calls that run when the handler panics: all of them, last
\* deferred first, as on a return.
Unwind(ds) == ds

\* The handler panics in its body: nothing is written, its deferred calls
\* run and the panic goes on into the wrapper, whose deferred span.End()
\* runs, and into net/http, which recovers it.
HandlerPanic(r) ==
    /\ pc[r] = "body"
    /\ req[r].abort = ""
    /\ req' = [req EXCEPT ![r].abort = "panic"]
    /\ defers' = [defers EXCEPT ![r] = Unwind(@)]
    /\ pc' = [pc EXCEPT ![r] = IF Unwind(defers[r]) = <<>> THEN "served" ELSE "exit"]
    /\ UNCHANGED <<rctx, ctx, events, resp, spans, nextID,
                   activeConnections, requestCounter, responseTime, prop, orch>>

NextCancel ==
    \/ Next
    \/ \E r \in Req : ClientDisconnect(r) \/ HandlerPanic(r)

SpecCancel == Init /\ [][NextCancel]_vars

\* ------------------------------------------------------------------------
\* The propagator on its own
\* ------------------------------------------------------------------------

\* Identifiers of the contexts handed to the propagator.
PropTraceIDs ==
    {NilTraceID, IDOf(TraceIDLen, 1), [i \in 1..TraceIDLen |-> 255],
     [i \in 1..TraceIDLen |-> (i * 17) % 256]}

PropSpanIDs ==
    {NilSpanID, IDOf(SpanIDLen, 10), [i \in 1..SpanIDLen |-> (i * 31) % 256]}

\* Span contexts as the SDK and the propagator produce them: the flags byte is
\* the sampled bit.
PropContexts ==
    {[tid |-> t, sid |-> s, flags |-> f, remote |-> FALSE] :
        t \in PropTraceIDs, s \in PropSpanIDs, f \in {0, 1}}

SampleTraceID == [i \in 1..TraceIDLen |-> (i * 29) % 256]
SampleSpanID == [i \in 1..SpanIDLen |-> (i * 53) % 256]
ValidText == TraceParent(0, SampleTraceID, SampleSpanID, 1)

Raw(text) == [traceparent |-> text]

SetChar(h, k, c) == [i \in 1..Len(h) |-> IF i = k THEN c ELSE h[i]]

\* Header values a peer may send: well formed ones, and ones with too few or
\* too many fields, characters that are not hex digits, identifiers of the
\* wrong length, all-zero identifiers, other versions and other flags.
PropCarriers ==
    {EmptyCarrier,
     Raw(ValidText),
     Raw(TraceParent(0, SampleTraceID, SampleSpanID, 0)),
     Raw(TraceParent(0, SampleTraceID, SampleSpanID, 2)),
     Raw(TraceParent(0, SampleTraceID, SampleSpanID, 3)),
     Raw(SubSeq(ValidText, 1, 52)),
     Raw(SubSeq(ValidText, 1, 35)),
     Raw(ValidText \o <<"-", "a", "b">>),
     Raw(TraceParent(1, SampleTraceID, SampleSpanID, 1)),
     Raw(TraceParent(1, SampleTraceID, SampleSpanID, 1) \o <<"-", "a", "b">>),
     Raw(TraceParent(1, SampleTraceID, SampleSpanID, 1) \o <<"-", "x", "y">>),
     Raw(TraceParent(255, SampleTraceID, SampleSpanID, 1)),
     Raw(SetChar(ValidText, 1, "x")),
     Raw(SetChar(ValidText, 4, "g")),
     Raw(SetChar(ValidText, 40, "z")),
     Raw(SetChar(ValidText, 55, "q")),
     Raw(SetChar(ValidText, 5, "A")),
     Raw(SetChar(ValidText, 3, "0")),
     Raw(TraceParent(0, NilTraceID, SampleSpanID, 1)),
     Raw(TraceParent(0, SampleTraceID, NilSpanID, 1)),
     Raw(TraceParent(0, SubSeq(SampleTraceID, 1, TraceIDLen - 1), SampleSpanID, 1)),
     Raw(TraceParent(0, SampleTraceID, SampleSpanID \o <<7>>, 1))}

InitProp ==
    /\ InitService
    /\ orch = OrchOff
    /\ \E c \in PropContexts, k \in PropCarriers :
          prop = [phase |-> "start", injected |-> FALSE, ctx |-> c,
                  carrier0 |-> k, carrier |-> k, out |-> EmptySC]

\* otel.GetTextMapPropagator().Inject(ctx, carrier)
PropInject ==
    /\ prop.phase = "start"
    /\ prop' = [prop EXCEPT !.phase = "injected", !.injected = TRUE,
                            !.carrier = InjectSC(prop.ctx, prop.carrier)]
    /\ UNCHANGED <<svcVars, orch>>

\* otel.GetTextMapPropagator().Extract(context.Background(), carrier)
PropExtract ==
    /\ prop.phase \in {"start", "injected"}
    /\ prop' = [prop EXCEPT !.phase = "extracted",
                            !.out = ExtractSC(prop.carrier)]
    /\ UNCHANGED <<svcVars, orch>>

NextProp == PropInject \/ PropExtract

SpecProp == InitProp /\ [][NextProp]_vars

\* ------------------------------------------------------------------------
\* The orchestrator process and the services it calls
\* ------------------------------------------------------------------------

\* Calls of demonstrateViewsAndExemplars that are followed.
NumDemo == 1

\* User ids demonstrateViewsAndExemplars asks for: one that exists and one
\* that does not.
DemoIDs == {<<"1">>, <<"9", "9", "9">>}

CallSteps == {"getUser", "getUserPosts", "userError", "postError", "demo"}

\* Where each call of the orchestrator goes: getUser and getUserPosts (through
\* callService, with the client-side instruments around it), the two error
\* endpoints (through callServiceIgnoreError).
Target(step) ==
    CASE step \in {"getUser", "demo"} ->
            [svc |-> "user", route |-> "/users", label |-> "user-service",
             wrapped |-> TRUE]
      [] step = "getUserPosts" ->
            [svc |-> "post", route |-> "/posts/by-user", label |-> "post-service",
             wrapped |-> TRUE]
      [] step = "userError" ->
            [svc |-> "user", route |-> "/error", label |-> "", wrapped |-> FALSE]
      [] step = "postError" ->
            [svc |-> "post", route |-> "/error", label |-> "", wrapped |-> FALSE]

\* Variant: a failed operation does not touch the error counter.
ClientOps_ErrorUncounted(label, failed) ==
    <<[op |-> "operation", service |-> label],
      [op |-> "duration", service |-> label]>>

\* The samples getUser / getUserPosts / getExternalPost record: the error
\* counter on a failure, then, deferred, the operation counter and the
\* duration histogram.
ClientOps(label, failed) ==
    (IF failed THEN <<[op |-> "error", service |-> label]>> ELSE <<>>)
    \o <<[op |-> "operation", service |-> label],
         [op |-> "duration", service |-> label]>>

InitChain ==
    /\ InitService
    /\ prop = PropOff
    /\ orch = [OrchOff EXCEPT !.pc = "main"]

\* main: tracer.Start(context.Background(), "main_orchestration").
mainStart ==
    /\ orch.pc = "main"
    /\ LET s == StartSpan(NoContext, "main_orchestration", 0, "orchestrator")
       IN /\ spans' = Append(spans, s)
          /\ orch' = [orch EXCEPT !.pc = "orchestrate",
                         !.mainCtx = [sc |-> SpanSC(s), span |-> Len(spans) + 1]]
    /\ nextID' = nextID + 1
    /\ UNCHANGED <<pc, req, rctx, ctx, defers, events, resp,
                   activeConnections, requestCounter, responseTime, prop>>

\* orchestrateUserData: tracer.Start(ctx, "orchestrateUserData").
orchestrateUserDataEntry ==
    /\ orch.pc = "orchestrate"
    /\ LET s == StartSpan(orch.mainCtx, "orchestrateUserData", 0, "orchestrator")
       IN /\ spans' = Append(spans, s)
          /\ orch' = [orch EXCEPT !.pc = "getUser",
                         !.ctx = [sc |-> SpanSC(s), span |-> Len(spans) + 1]]
    /\ nextID' = nextID + 1
    /\ UNCHANGED <<pc, req, rctx, ctx, defers, events, resp,
                   activeConnections, requestCounter, responseTime, prop>>

\* Variant: the call is made under context.Background().
CallCtx_Background == NoContext

\* The context a call is made under: main's for the calls of
\* demonstrateViewsAndExemplars, orchestrateUserData's for the others.
CallCtx == IF orch.pc = "demo" THEN orch.mainCtx ELSE orch.ctx

\* Variant: the request is built without the Inject call.
ManualInject_Skipped(c) == EmptyCarrier

\* otel.GetTextMapPropagator().Inject(ctx, HeaderCarrier(req.Header)) on the
\* fresh request.
ManualInject(c) == InjectSC(c.sc, EmptyCarrier)

\* callService / callServiceIgnoreError up to the request leaving: Inject of
\* ctx into the request headers, then httpClient.Do, whose otelhttp transport
\* starts a client span under ctx and injects that span's context into the
\* same headers.
callServiceSend ==
    /\ orch.pc \in CallSteps
    /\ orch.phase = "idle"
    /\ LET manual == ManualInject(CallCtx)
           s == StartSpan(CallCtx, "HTTP GET", 0, "transport")
       IN /\ spans' = Append(spans, s)
          /\ orch' = [orch EXCEPT !.phase = "sending",
                         !.manual = manual,
                         !.sent = InjectSC(SpanSC(s), manual),
                         !.client = Len(spans) + 1,
                         !.slot = orch.calls + 1,
                         !.calls = orch.calls + 1]
    /\ nextID' = nextID + 1
    /\ UNCHANGED <<pc, req, rctx, ctx, defers, events, resp,
                   activeConnections, requestCounter, responseTime, prop>>

\* The request reaches the service, which starts serving it.
callServiceDeliver ==
    /\ orch.pc \in CallSteps
    /\ orch.phase = "sending"
    /\ \E id \in (IF orch.pc = "demo" THEN DemoIDs
                  ELSE IF Target(orch.pc).wrapped THEN {<<"1">>} ELSE {<<>>}) :
          Serve(orch.slot, Target(orch.pc).svc, Target(orch.pc).route, "GET",
                orch.sent, id)
    /\ orch' = [orch EXCEPT !.phase = "waiting"]
    /\ UNCHANGED prop

\* The connection fails: the transport records the error on the client span
\* and ends it, httpClient.Do returns the error.
callServiceRefused ==
    /\ orch.pc \in CallSteps
    /\ orch.phase = "sending"
    /\ spans' = EndSpan(recordError(spans, orch.client, "connection refused"),
                        orch.client)
    /\ orch' = [orch EXCEPT !.phase = "failed"]
    /\ UNCHANGED <<pc, req, rctx, ctx, defers, events, resp, nextID,
                   activeConnections, requestCounter, responseTime, prop>>

\* Whether the call counts as failed: callService fails on any status other
\* than 200, callServiceIgnoreError on a status of 400 and above; both fail
\* when the request could not be made.
CallFailed(step, refused, status) ==
    \/ refused
    \/ IF Target(step).wrapped THEN status # 200 ELSE status >= 400

\* What callService (wrapped) and callServiceIgnoreError return: the bytes
\* (nil is "") and the error.  callService returns
\* fmt.Errorf("service returned status: %d", code) for every status other
\* than 200 without reading the body; callServiceIgnoreError reads the body
\* and returns it, with fmt.Errorf("HTTP %d: %s", code, body) when the status
\* is 400 or above.
CallResult(wrapped, refused, status, body) ==
    IF refused
    THEN [body |-> "",
          err |-> [nil |-> FALSE, status |-> 0, body |-> "",
                   text |-> "connection refused"]]
    ELSE IF wrapped
    THEN IF status # 200
         THEN [body |-> "",
               err |-> [nil |-> FALSE, status |-> status, body |-> "",
                        text |-> "service returned status: %d"]]
         ELSE [body |-> body, err |-> NoError]
    ELSE IF status >= 400
         THEN [body |-> body,
               err |-> [nil |-> FALSE, status |-> status, body |-> body,
                        text |-> "HTTP %d: %s"]]
         ELSE [body |-> body, err |-> NoError]

\* Variant: orchestrateUserData goes on after a failed getUserPosts.
AfterCall_CarryOn(step, failed) ==
    CASE step = "getUser" -> IF failed THEN "returnErr" ELSE "getUserPosts"
      [] step = "getUserPosts" -> "getExternalPost"
      [] step = "userError" -> "postError"
      [] step = "postError" -> "return"
      [] step = "demo" -> IF orch.demo + 1 < NumDemo THEN "demo" ELSE "mainReturn"

\* Where the orchestrator goes after a call.
AfterCall(step, failed) ==
    CASE step = "getUser" -> IF failed THEN "returnErr" ELSE "getUserPosts"
      [] step = "getUserPosts" -> IF failed THEN "returnErr" ELSE "getExternalPost"
      [] step = "userError" -> "postError"
      [] step = "postError" -> "return"
      [] step = "demo" -> IF orch.demo + 1 < NumDemo THEN "demo" ELSE "mainReturn"

\* The response is back (or the request failed): the transport sets the
\* client span's status from the status code and the span ends when the body
\* is closed; callService turns the status into its result, the caller records
\* its samples and goes on or returns the error.
callServiceReturn ==
    /\ orch.pc \in CallSteps
    /\ \/ orch.phase = "failed"
       \/ orch.phase = "waiting" /\ pc[orch.slot] = "done"
    /\ LET step == orch.pc
           refused == orch.phase = "failed"
           status == IF refused THEN 0 ELSE resp[orch.slot].status
           failed == CallFailed(step, refused, status)
           rbody == IF refused THEN "" ELSE resp[orch.slot].body
           res == CallResult(Target(step).wrapped, refused, status, rbody)
           i == orch.client
       IN /\ spans' = IF refused THEN spans
                      ELSE EndSpan(IF status >= 400
                                   THEN [spans EXCEPT ![i].status = "Error"]
                                   ELSE spans, i)
          /\ orch' = [orch EXCEPT
                         !.pc = AfterCall(step, failed),
                         !.phase = "idle",
                         !.err = res.err,
                         !.demo = IF step = "demo" THEN @ + 1 ELSE @,
                         !.ops = IF Target(step).wrapped
                                 THEN @ \o ClientOps(Target(step).label, failed)
                                 ELSE @,
                         !.log = Append(@, [step |-> step, slot |-> orch.slot,
                                            client |-> i, status |-> status,
                                            failed |-> failed,
                                            manual |-> orch.manual,
                                            sent |-> orch.sent,
                                            rbody |-> rbody,
                                            body |-> res.body,
                                            err |-> res.err,
                                            ops |-> IF Target(step).wrapped
                                                    THEN ClientOps(Target(step).label,
                                                                   failed)
                                                    ELSE <<>>])]
    /\ UNCHANGED <<pc, req, rctx, ctx, defers, events, resp, nextID,
                   activeConnections, requestCounter, responseTime, prop>>

\* getExternalPost: the same Inject and transport span, to a service outside
\* the repository that answers, cannot be reached, or answers what does not
\* decode.
getExternalPost ==
    /\ orch.pc = "getExternalPost"
    /\ \E outcome \in {"ok", "refused", "decode_error"} :
       LET s == StartSpan(orch.ctx, "HTTP GET", 0, "transport")
           i == Len(spans) + 1
           ss == Append(spans, s)
           failed == outcome # "ok"
       IN /\ spans' = EndSpan(IF outcome = "refused"
                              THEN recordError(ss, i, "connection refused")
                              ELSE ss, i)
          /\ orch' = [orch EXCEPT
                         !.pc = IF failed THEN "returnErr" ELSE "userError",
                         !.err = IF failed
                                 THEN [NoError EXCEPT !.nil = FALSE, !.text = outcome]
                                 ELSE NoError,
                         !.manual = ManualInject(orch.ctx),
                         !.sent = InjectSC(SpanSC(s), ManualInject(orch.ctx)),
                         !.ops = @ \o ClientOps("external-api", failed),
                         !.log = Append(@, [step |-> "getExternalPost", slot |-> 0,
                                            client |-> i, status |-> 0,
                                            failed |-> failed,
                                            manual |-> ManualInject(orch.ctx),
                                            sent |-> InjectSC(SpanSC(s),
                                                        ManualInject(orch.ctx)),
                                            rbody |-> "", body |-> "",
                                            ops |-> ClientOps("external-api", failed),
                                            err |-> IF failed
                                                    THEN [NoError EXCEPT
                                                            !.nil = FALSE,
                                                            !.text = outcome]
                                                    ELSE NoError])]
    /\ nextID' = nextID + 1
    /\ UNCHANGED <<pc, req, rctx, ctx, defers, events, resp,
                   activeConnections, requestCounter, responseTime, prop>>

\* orchestrateUserData returns: its deferred span.End() runs; main goes on
\* when the result is nil and exits through log.Fatalf, running no deferred
\* call, when it is an error.
orchestrateUserDataReturn ==
    /\ orch.pc \in {"return", "returnErr"}
    /\ spans' = EndSpan(spans, orch.ctx.span)
    /\ orch' = [orch EXCEPT !.pc = IF orch.pc = "return" THEN "demo" ELSE "fatal"]
    /\ UNCHANGED <<pc, req, rctx, ctx, defers, events, resp, nextID,
                   activeConnections, requestCounter, responseTime, prop>>

\* The providers main defers the Shutdown of.
Providers == {"tracer", "meter"}

\* main returns: its deferred calls run, mainSpan.End() first, then
\* mp.Shutdown and tp.Shutdown, which flush what was recorded.
mainReturn ==
    /\ orch.pc = "mainReturn"
    /\ spans' = EndSpan(spans, orch.mainCtx.span)
    /\ orch' = [orch EXCEPT !.pc = "exit", !.shutdown = Providers]
    /\ UNCHANGED <<pc, req, rctx, ctx, defers, events, resp, nextID,
                   activeConnections, requestCounter, responseTime, prop>>

NextChain ==
    \/ mainStart
    \/ orchestrateUserDataEntry
    \/ callServiceSend
    \/ callServiceDeliver
    \/ callServiceRefused
    \/ callServiceReturn
    \/ getExternalPost
    \/ orchestrateUserDataReturn
    \/ mainReturn
    \/ \E r \in Req :
          \/ LookupHandlerEntry(r)
          \/ errorHandlerEntry(r)
          \/ LookupHandlerBody(r)
          \/ errorHandlerBody(r)
          \/ RunDeferred(r)
          \/ otelhttpFinish(r)

SpecChain == InitChain /\ [][NextChain]_vars

\* ------------------------------------------------------------------------
\* Properties
\* ------------------------------------------------------------------------

\* Number of entries of request r's log with the given operation and value.
CountEv(r, op, val) ==
    Cardinality({i \in 1..Len(events[r]) :
                    events[r][i].op = op /\ events[r][i].val = val})

Returned(r) == pc[r] \in {"served", "done"}

Quiescent == \A r \in Req : pc[r] \in {"new", "done"}

SpansOf(r) == {i \in 1..Len(spans) : spans[i].req = r}

\* C1: in-flight balance.  For every request whose handler has returned,
\* whatever its exit, the +1 records equal the -1 records; and whenever no
\* request is in progress the in-flight value of every service is back to
\* its initial value 0.
C1_InFlightBalance ==
    /\ \A r \in Req : Returned(r) =>
          CountEv(r, "active", 1) = CountEv(r, "active", -1)
    /\ Quiescent => \A svc \in Services : activeConnections[svc] = 0

\* Two concurrent requests to cmd/post have completed, one through the 404
\* exit and one through the 503 exit, each after incrementing in-flight.
C1_Witness ==
    /\ \A r \in {1, 2} : pc[r] = "done" /\ CountEv(r, "active", 1) = 1
    /\ resp[1].status = 404
    /\ resp[2].status = 503

\* C2: every span is ended at most once at any time; a span started by a
\* handler has been ended exactly once when the handler has returned (on
\* every exit), and the wrapper's server span when the request is done.
C2_SpanEndedExactlyOnce ==
    \A i \in 1..Len(spans) :
        /\ spans[i].ends <= 1
        /\ spans[i].by = "handler" /\ Returned(spans[i].req) => spans[i].ends = 1
        /\ pc[spans[i].req] = "done" => spans[i].ends = 1

\* Two handlers that started a span of their own have returned, one through
\* the 400 exit (non-numeric id), one through the encode-failure exit.
C2_Witness ==
    /\ \A r \in {1, 2} : Returned(r) /\ \E i \in SpansOf(r) : spans[i].by = "handler"
    /\ resp[1].status = 400 /\ req[1].id # <<>>
    /\ req[2].enc = "fail"

\* The trace context a request carried in, as the propagator reads it.
Incoming(r) == ExtractSC(req[r].header)

Arrived(r) == pc[r] # "new"

\* The span the otelhttp wrapper started for request r, and the span the
\* handler started on entry (0 when it started none).
ServerSpan(r) == spans[rctx[r].span]

EntrySpans(r) ==
    {i \in SpansOf(r) : spans[i].by = "handler"
                        /\ spans[i].name = HandlerName(req[r].svc, req[r].route)}

\* C3: continuation.  A request that arrived with a valid trace context c is
\* served under a span of this hop whose trace id is c's, whose parent is c's
\* span id and whose span id is new (not c's, not another span's); a span the
\* handler starts on entry continues c in the same way, and every span of the
\* request is in c's trace.
C3_Continuation ==
    \A r \in Req : Arrived(r) =>
        LET c == Incoming(r)
        IN IsValid(c) =>
            /\ ServerSpan(r).tid = c.tid
            /\ ServerSpan(r).parent = c.sid
            /\ ServerSpan(r).sid # c.sid
            /\ \A i \in EntrySpans(r) :
                  /\ spans[i].tid = c.tid
                  /\ spans[i].parent = c.sid
                  /\ spans[i].sid # c.sid
            /\ \A i \in SpansOf(r) : spans[i].tid = c.tid
            /\ \A i, j \in 1..Len(spans) : i # j => spans[i].sid # spans[j].sid

\* A handler that starts its own span has been entered on a request carrying
\* a valid context.
C3_Witness ==
    \E r \in Req :
        /\ IsValid(Incoming(r))
        /\ pc[r] = "body"
        /\ EntrySpans(r) # {}

\* C4: root fallback.  A request that arrived with no traceparent or with one
\* that does not parse is served under a root span: no parent, a trace id
\* that is not nil, and every span of the request in that trace; no two root
\* spans share a trace id.
C4_RootFallback ==
    /\ \A r \in Req : Arrived(r) /\ ~IsValid(Incoming(r)) =>
          /\ ServerSpan(r).parent = NilSpanID
          /\ ServerSpan(r).tid # NilTraceID
          /\ \A i \in SpansOf(r) : spans[i].tid = ServerSpan(r).tid
    /\ \A i, j \in 1..Len(spans) :
          i # j /\ spans[i].parent = NilSpanID /\ spans[j].parent = NilSpanID
             => spans[i].tid # spans[j].tid

\* Two requests have arrived, one without a traceparent and one with a
\* corrupt one.
C4_Witness ==
    /\ Arrived(1) /\ req[1].header = EmptyCarrier
    /\ Arrived(2) /\ req[2].header = CorruptHeader

\* C8: a propagation error is not surfaced.  Two completed requests to the
\* same route with the same parameter and the same collaborator outcome, one
\* without a traceparent and one with an invalid one, have the same status
\* and body, and the one with the invalid header is served under a new root
\* trace.
C8_PropagationErrorSilent ==
    \A a, b \in Req :
        ( /\ pc[a] = "done" /\ pc[b] = "done"
          /\ req[a].header = EmptyCarrier
          /\ req[b].header # EmptyCarrier /\ ~IsValid(Incoming(b))
          /\ req[a].route = req[b].route /\ req[a].id = req[b].id
          /\ req[a].db = req[b].db /\ req[a].enc = req[b].enc )
        => /\ resp[a].status = resp[b].status
           /\ resp[a].body = resp[b].body
           /\ ServerSpan(b).parent = NilSpanID
           /\ ServerSpan(b).tid # ServerSpan(a).tid

\* Such a pair has completed through the 400 exit.
C8_Witness ==
    /\ pc[1] = "done" /\ pc[2] = "done"
    /\ req[1].header = EmptyCarrier /\ req[2].header = CorruptHeader
    /\ req[1].route = req[2].route /\ req[1].id = req[2].id
    /\ resp[1].status = 400 /\ resp[2].status = 400

\* The entries of request r's log for one instrument.
Samples(r, op) == {i \in 1..Len(events[r]) : events[r][i].op = op}

Instrumented(r) == req[r].svc \in {"user", "post"}

\* C9: a request to a handler of cmd/user or cmd/post has recorded nothing on
\* the request counter or the duration histogram before its handler body has
\* finished, and exactly one counter increment and one duration observation
\* once the handler has returned, on every exit, each tagged with the
\* request's method and the handler's route.
C9_OneCountOneDuration ==
    \A r \in Req : Instrumented(r) =>
        /\ pc[r] \in {"handler", "body"} =>
              Samples(r, "count") = {} /\ Samples(r, "duration") = {}
        /\ Returned(r) =>
              \A op \in {"count", "duration"} :
                  /\ Cardinality(Samples(r, op)) = 1
                  /\ \A i \in Samples(r, op) :
                        /\ events[r][i].method = req[r].method
                        /\ events[r][i].route = req[r].route
                        /\ events[r][i].val = 1

\* A POST request to /posts has returned through the 500 exit.
C9_Witness ==
    /\ Returned(1)
    /\ req[1].method = "POST" /\ req[1].route = "/posts"
    /\ resp[1].status = 500

\* The counter and histogram samples of request r.
Measurements(r) == Samples(r, "count") \cup Samples(r, "duration")

RECURSIVE Fields(_)
Fields(h) ==
    IF \E i \in 1..Len(h) : h[i] = "-"
    THEN <<Cut(h).part>> \o Fields(Cut(h).left)
    ELSE <<h>>

AllZero(f) == f # <<>> /\ \A i \in 1..Len(f) : f[i] = "0"

IsHex(c) == IsLowerHex(c) \/ c \in {"A", "B", "C", "D", "E", "F"}

ZeroTraceID(h) == Len(Fields(h)) >= 2 /\ AllZero(Fields(h)[2])
ZeroSpanID(h) == Len(Fields(h)) >= 3 /\ AllZero(Fields(h)[3])

\* C6: injecting a valid trace context into a carrier, whatever the carrier
\* held, and extracting from the result yields a context with the same trace
\* id, span id and flags.
C6_RoundTrip ==
    (prop.phase = "extracted" /\ prop.injected /\ IsValid(prop.ctx)) =>
        /\ prop.out.tid = prop.ctx.tid
        /\ prop.out.sid = prop.ctx.sid
        /\ prop.out.flags = prop.ctx.flags
        /\ IsValid(prop.out)

\* A valid sampled context was injected over a malformed header value and
\* extracted again.
C6_Witness ==
    /\ prop.phase = "extracted" /\ prop.injected
    /\ IsValid(prop.ctx) /\ prop.ctx.flags = 1
    /\ prop.ctx.tid = [i \in 1..TraceIDLen |-> (i * 17) % 256]
    /\ prop.carrier0 = Raw(SubSeq(ValidText, 1, 52))
    /\ prop.out.tid = prop.ctx.tid

DeliveredCalls ==
    {[step |-> orch.log[k].step, slot |-> orch.log[k].slot,
      client |-> orch.log[k].client] :
        k \in {j \in 1..Len(orch.log) :
                 /\ orch.log[j].step \in {"getUser", "getUserPosts", "demo"}
                 /\ orch.log[j].status # 0}}
    \cup (IF orch.phase = "waiting" /\ Target(orch.pc).wrapped
          THEN {[step |-> orch.pc, slot |-> orch.slot, client |-> orch.client]}
          ELSE {})

\* The orchestrator span a call was made under: main_orchestration for the
\* calls of demonstrateViewsAndExemplars, orchestrateUserData otherwise.
CallerSpan(step) ==
    spans[IF step = "demo" THEN orch.mainCtx.span ELSE orch.ctx.span]

\* C5 as stated: the server span of a service called through callService has
\* the trace id of the orchestrator's span the call was made under and that
\* span's id as its parent.
C5_ParentIsCallerSpan ==
    \A c \in DeliveredCalls :
        /\ ServerSpan(c.slot).tid = CallerSpan(c.step).tid
        /\ ServerSpan(c.slot).parent = CallerSpan(c.step).sid

\* C5, amended: the orchestrator's main_orchestration span is a root span;
\* the server span of a service called through callService has the trace id
\* of that root span and of the orchestrator span the call was made under,
\* and its parent is the client span the orchestrator's HTTP transport
\* started for the call, which is itself a child of the span the call was
\* made under.
C5_ParentIsClientSpan ==
    \A c \in DeliveredCalls :
        /\ spans[orch.mainCtx.span].parent = NilSpanID
        /\ ServerSpan(c.slot).tid = spans[orch.mainCtx.span].tid
        /\ ServerSpan(c.slot).tid = CallerSpan(c.step).tid
        /\ ServerSpan(c.slot).parent = spans[c.client].sid
        /\ spans[c.client].parent = CallerSpan(c.step).sid
        /\ spans[c.client].tid = CallerSpan(c.step).tid
        /\ ServerSpan(c.slot).sid # spans[c.client].sid
        /\ pc[c.slot] \in {"body", "exit", "served", "done"} =>
               ctx[c.slot].sc.tid = CallerSpan(c.step).tid

\* getUser and getUserPosts have both been answered with 200 by user-service
\* and post-service.
C5_Witness ==
    /\ orch.pc = "getExternalPost"
    /\ Len(orch.log) = 2
    /\ \A k \in 1..2 : orch.log[k].status = 200
    /\ Cardinality(DeliveredCalls) = 2
    /\ req[1].svc = "user" /\ req[2].svc = "post"

\* Positions in request r's log: the metric records (in-flight, counter,
\* histogram), the span starts, the span ends.
MetricAt(r) ==
    {i \in 1..Len(events[r]) : events[r][i].op \in {"active", "count", "duration"}}

StartAt(r) == {i \in 1..Len(events[r]) : events[r][i].op = "span_start"}

EndAt(r) == {i \in 1..Len(events[r]) : events[r][i].op = "span_end"}

\* C11: within one request, every span start comes before every metric
\* record of the request, the in-flight increment included, and every metric
\* record comes before the end of the request's server span; a metric is
\* never recorded without a span started, and the server span has ended, after
\* all metric records, when the request is done.
C11_SpanBracketsMetrics ==
    \A r \in Req :
        /\ \A m \in MetricAt(r) :
              /\ StartAt(r) # {}
              /\ \A s \in StartAt(r) : s < m
              /\ \A e \in EndAt(r) : m < e
        /\ pc[r] = "done" => EndAt(r) # {} /\ ServerSpan(r).ends = 1

\* A lookup of cmd/user on an existing row is done: in-flight +1 and -1, one
\* counter and one histogram sample, between the start and the end of its span.
C11_Witness ==
    /\ pc[1] = "done" /\ req[1].svc = "user" /\ req[1].route = "/users"
    /\ resp[1].status = 200
    /\ Cardinality(MetricAt(1)) = 4
    /\ Cardinality(StartAt(1)) = 1 /\ Cardinality(EndAt(1)) = 1

\* Request r asked a single-record handler of cmd/user or cmd/post for an
\* identifier that does not exist, and the lookup said so.
NotFound(r) ==
    /\ Instrumented(r)
    /\ req[r].route \in {"/users", "/posts"}
    /\ req[r].id # <<>> /\ Atoi(req[r].id) # -1
    /\ req[r].db # ""
    /\ LookupResult(req[r].route, Atoi(req[r].id), req[r].db) = "norows"

\* C12: when the lookup reports that the identifier does not exist, the
\* response is 404, no error is recorded on any span of the request and no
\* span of it has status Error, and once the handler has returned one counter
\* and one histogram sample have been recorded.
C12_NotFoundNoSpanError ==
    \A r \in Req : NotFound(r) /\ Returned(r) =>
        /\ resp[r].status = 404
        /\ \A i \in SpansOf(r) : spans[i].status # "Error" /\ spans[i].errors = 0
        /\ Cardinality(Samples(r, "count")) = 1
        /\ Cardinality(Samples(r, "duration")) = 1

\* The identifier parameter of request r is missing or is not a decimal
\* number.
IsNumeric(t) ==
    t # <<>> /\ \A i \in 1..Len(t) :
                  t[i] \in {"0", "1", "2", "3", "4", "5", "6", "7", "8", "9"}

BadParam(r) == Arrived(r) /\ IsLookup(req[r].route) /\ ~IsNumeric(req[r].id)

\* C13: when the identifier parameter is missing or not numeric, the handler
\* answers 400 without having invoked the lookup, no error is recorded on any
\* span of the request and none has status Error, the counter and histogram
\* samples are still recorded (cmd/user, cmd/post), and every span the handler
\* started has been ended once.
C13_BadParameter ==
    \A r \in Req : BadParam(r) =>
        /\ req[r].db = ""
        /\ \A i \in SpansOf(r) : spans[i].status # "Error" /\ spans[i].errors = 0
        /\ Returned(r) =>
              /\ resp[r].status = 400
              /\ Instrumented(r) =>
                    /\ Cardinality(Samples(r, "count")) = 1
                    /\ Cardinality(Samples(r, "duration")) = 1
              /\ \A i \in SpansOf(r) : spans[i].by = "handler" => spans[i].ends = 1

\* cmd/post has answered one request without the parameter and one with a
\* non-numeric parameter.
C13_Witness ==
    /\ pc[1] = "done" /\ pc[2] = "done"
    /\ req[1].svc = "post" /\ req[1].route = "/posts/by-user" /\ req[1].id = <<>>
    /\ req[2].route = "/posts" /\ req[2].id = <<"a", "b">>
    /\ resp[1].status = 400 /\ resp[2].status = 400

\* The attributes of a counter or histogram sample: the request method, the
\* route and, on the counter sample of errorHandler, the status code.
Attributes(e) ==
    {<<"http.request.method", e.method>>, <<"http.route", e.route>>}
    \cup (IF e.code = "" THEN {} ELSE {<<"http.response.status_code", e.code>>})

\* C14: for a request without the required parameter the response is 400, no
\* span is started for the business operation, and every counter and
\* histogram sample of the request carries an "invalid" marker among its
\* attributes.
C14_InvalidMarker ==
    \A r \in Req :
        (Instrumented(r) /\ IsLookup(req[r].route) /\ req[r].id = <<>> /\ Returned(r)) =>
            /\ resp[r].status = 400
            /\ \A i \in SpansOf(r) : spans[i].by # "handler"
            /\ Measurements(r) # {}
            /\ \A i \in Measurements(r) :
                  \E a \in Attributes(events[r][i]) :
                      a[1] = "invalid" \/ a[2] = "invalid"

\* The data collaborator failed request r's lookup with something other than
\* not-found.
CollaboratorError(r) ==
    /\ Instrumented(r) /\ IsLookup(req[r].route)
    /\ req[r].db # ""
    /\ LookupResult(req[r].route, Atoi(req[r].id), req[r].db) = "error"

\* C15: when the data collaborator fails with anything other than not-found,
\* the response is 500 with the fixed body, and when the request is done its
\* span has status Error with a non-empty description, whether the request
\* came with a valid trace context or not.
C15_CollaboratorErrorOnSpan ==
    \A r \in Req : CollaboratorError(r) /\ pc[r] = "done" =>
        /\ resp[r].status = 500
        /\ resp[r].body = "internal server error"
        /\ ServerSpan(r).status = "Error"
        /\ ServerSpan(r).desc # ""

\* C16: once a call to the deliberate-failure endpoint is done, with or
\* without a valid incoming trace context, the request's span has status
\* Error with a non-empty description, and the counter has been incremented
\* exactly once for the call, on the sample tagged with the error status code.
C16_ErrorEndpointSpan ==
    \A r \in Req :
        (Instrumented(r) /\ req[r].route = "/error" /\ pc[r] = "done") =>
            /\ ServerSpan(r).status = "Error"
            /\ ServerSpan(r).desc # ""
            /\ Cardinality(Samples(r, "count")) = 1
            /\ \A i \in Samples(r, "count") :
                  events[r][i].val = 1 /\ events[r][i].code # ""

\* C17: the deliberate-failure endpoint answers every request with a
\* server-error status, 500 in user-service and 503 in post-service, and the
\* health endpoint answers every request with 200 and the fixed payload naming
\* the service, whatever the method, the headers and the query parameters.
C17_FixedAnswers ==
    \A r \in Req : Returned(r) =>
        /\ req[r].route = "/error" =>
              /\ resp[r].status = IF req[r].svc = "user" THEN 500 ELSE 503
              /\ resp[r].body = IF req[r].svc = "user"
                                THEN "This is a test error endpoint"
                                ELSE "Database temporarily unavailable"
        /\ req[r].route = "/health" =>
              /\ resp[r].status = 200
              /\ resp[r].body = IF req[r].svc = "post"
                                THEN "{status:ok,service:post-service}"
                                ELSE "{status:ok,service:user-service}"

\* post-service has answered 503 to a POST on the deliberate-failure
\* endpoint that carried a query parameter and a corrupt traceparent.
C17_Witness ==
    /\ pc[1] = "done"
    /\ req[1].svc = "post" /\ req[1].route = "/error"
    /\ req[1].method = "POST" /\ req[1].id = <<"a", "b">>
    /\ req[1].header = CorruptHeader
    /\ resp[1].status = 503

\* C18: the health handler of cmd/user and cmd/post never starts a span of
\* its own (the request's only span is the wrapper's server span), yet it
\* increments the in-flight counter on entry and, once it has returned, has
\* decremented it once and recorded one counter and one histogram sample.
C18_HealthWithoutSpan ==
    \A r \in Req : (Instrumented(r) /\ req[r].route = "/health") =>
        /\ \A i \in SpansOf(r) : spans[i].by = "otelhttp"
        /\ Cardinality(SpansOf(r)) = 1
        /\ pc[r] \in {"body", "exit"} => CountEv(r, "active", 1) = 1
        /\ Returned(r) =>
              /\ CountEv(r, "active", 1) = 1
              /\ CountEv(r, "active", -1) = 1
              /\ Cardinality(Samples(r, "count")) = 1
              /\ Cardinality(Samples(r, "duration")) = 1

\* Two concurrent health checks of cmd/post are done, one of them carrying a
\* valid trace context.
C18_Witness ==
    /\ pc[1] = "done" /\ pc[2] = "done"
    /\ req[1].svc = "post" /\ req[1].route = "/health" /\ req[2].route = "/health"
    /\ IsValid(Incoming(1)) /\ req[2].header = EmptyCarrier
    /\ activeConnections["post"] = 0
    /\ requestCounter["post"]["/health"] = 2

\* Request r asked a lookup handler for an identifier that exists, and the
\* lookup and the encoding of the answer succeeded.
Found(r) ==
    /\ IsLookup(req[r].route)
    /\ IsNumeric(req[r].id) /\ Atoi(req[r].id) \in Rows
    /\ req[r].db = "ok" /\ req[r].enc = "ok"

\* C19: for a request whose identifier exists the response is 200 with the
\* record as body, and the response headers sent with it hold an injected
\* trace context whose trace id is that of the request's server span and of
\* the context the handler used for the lookup and the metrics.
C19_ResponseCarriesTrace ==
    \A r \in Req : Found(r) /\ pc[r] \in {"exit", "served", "done"} =>
        /\ resp[r].status = 200
        /\ resp[r].body = RecordBody(req[r].route, Atoi(req[r].id), req[r].db)
        /\ resp[r].body \in {"user#1", "post#1", "[post#1]"}
        /\ IsValid(ExtractSC(resp[r].header))
        /\ ExtractSC(resp[r].header).tid = ServerSpan(r).tid
        /\ ExtractSC(resp[r].header).tid = ctx[r].sc.tid
        /\ IsValid(Incoming(r)) => ExtractSC(resp[r].header).tid = Incoming(r).tid

\* Two lookups of user 1 on cmd/user are done, one in the caller's trace and
\* one in a trace of its own, each answered with the record and a traceparent.
C19_Witness ==
    /\ pc[1] = "done" /\ pc[2] = "done"
    /\ req[1].svc = "user" /\ Found(1) /\ Found(2)
    /\ Incoming(1).tid = CallerSampled.tid
    /\ req[2].header = EmptyCarrier
    /\ ExtractSC(resp[1].header).tid = CallerSampled.tid
    /\ ExtractSC(resp[2].header).tid = ServerSpan(2).tid
    /\ resp[1].body = "user#1"

\* A carrier holds the trace context of orchestrator span s.
Carries(carrier, s) ==
    /\ IsValid(ExtractSC(carrier))
    /\ ExtractSC(carrier).tid = s.tid
    /\ ExtractSC(carrier).sid = s.sid

\* C20: every outbound call of the orchestrator client (callService,
\* callServiceIgnoreError, getExternalPost) has injected the context of the
\* span it was made under into the request headers before the request is
\* sent: the injection of every request in flight and of every past call
\* holds the caller's span context, what is sent holds a valid context of the
\* same trace, and no service has received a request without a valid
\* traceparent of the orchestrator's trace.
C20_InjectBeforeSend ==
    /\ orch.phase \in {"sending", "waiting", "failed"} =>
          /\ Carries(orch.manual, CallerSpan(orch.pc))
          /\ IsValid(ExtractSC(orch.sent))
          /\ ExtractSC(orch.sent).tid = CallerSpan(orch.pc).tid
    /\ \A k \in 1..Len(orch.log) :
          /\ Carries(orch.log[k].manual, CallerSpan(orch.log[k].step))
          /\ IsValid(ExtractSC(orch.log[k].sent))
          /\ ExtractSC(orch.log[k].sent).tid = CallerSpan(orch.log[k].step).tid
    /\ \A r \in Req : Arrived(r) =>
          /\ IsValid(Incoming(r))
          /\ Incoming(r).tid = spans[orch.mainCtx.span].tid
          /\ ServerSpan(r).parent # NilSpanID

\* getUser, getUserPosts (callService) and getExternalPost have been made and
\* the call to the deliberate-failure endpoint of user-service
\* (callServiceIgnoreError) is in flight.
C20_Witness ==
    /\ orch.pc = "userError" /\ orch.phase = "waiting"
    /\ Len(orch.log) = 3
    /\ orch.log[3].step = "getExternalPost"
    /\ Arrived(orch.slot) /\ req[orch.slot].route = "/error"

\* The calls made through the client wrapper (callService or
\* callServiceIgnoreError) that got a response.
Answered == {k \in 1..Len(orch.log) :
                orch.log[k].step \in CallSteps /\ orch.log[k].status # 0}

Is2xx(status) == status >= 200 /\ status <= 299

\* C21: downstream call errors.  For every response to a call of the client
\* wrapper: when the status is not 2xx the caller gets a non-nil error that
\* carries the downstream status code and the downstream response body; when
\* it is 2xx the caller gets the body and no error.
C21_DownstreamErrorCarriesStatusAndBody ==
    \A k \in Answered :
        LET c == orch.log[k]
        IN IF Is2xx(c.status)
           THEN c.err.nil /\ c.body = c.rbody
           ELSE /\ ~c.err.nil
                /\ c.err.status = c.status
                /\ c.err.body = c.rbody

\* C22: the client wrapper has two variants.  callService treats a downstream
\* status of 400 or above as an error that surfaces the response body and the
\* status (and no lower status as one); callServiceIgnoreError, used for the
\* deliberate-error endpoints, reads the body and raises no error, whatever
\* the status.
C22_TwoVariants ==
    \A k \in Answered :
        LET c == orch.log[k]
        IN IF Target(c.step).wrapped
           THEN IF c.status >= 400
                THEN /\ ~c.err.nil
                     /\ c.err.status = c.status
                     /\ c.err.body = c.rbody
                ELSE c.err.nil
           ELSE c.body = c.rbody /\ c.err.nil

\* C23: cancellation.  When a request is cancelled (its client goes away) or
\* its handler panics at a point after handler entry, the exit-path
\* guarantees have run once the handler is left: the in-flight counter was
\* decremented as often as it was incremented, every span the handler
\* started has been ended exactly once, and when no request is in progress
\* the in-flight value is back to 0.
C23_ExitGuaranteesOnCancel ==
    /\ \A r \in Req : Returned(r) /\ req[r].abort # "" =>
          /\ CountEv(r, "active", 1) = CountEv(r, "active", -1)
          /\ Instrumented(r) => CountEv(r, "active", -1) = 1
          /\ \A i \in SpansOf(r) : spans[i].by = "handler" => spans[i].ends = 1
    /\ (Quiescent /\ \E r \in Req : req[r].abort # "") =>
          \A svc \in Services : activeConnections[svc] = 0

\* Two concurrent requests to post-service are done: the handler of the
\* first panicked, the second was cancelled and answered 500.
C23_Witness ==
    /\ pc[1] = "done" /\ req[1].svc = "post" /\ req[1].abort = "panic"
    /\ pc[2] = "done" /\ req[2].abort = "canceled" /\ resp[2].status = 500
    /\ CountEv(1, "active", -1) = 1 /\ CountEv(2, "active", -1) = 1

\* The requests to a route of a service whose handler has returned.
Completed(svc, route) ==
    {r \in Req : Returned(r) /\ req[r].svc = svc /\ req[r].route = route}

\* C24: no lost updates.  Whatever the interleaving of the requests in
\* flight, the request counter of a route and the number of observations of
\* its histogram both equal the number of requests to that route that have
\* recorded their samples; with N requests to the route completed and none
\* in progress both have grown from 0 to exactly N.
C24_NoLostUpdates ==
    \A svc \in {"user", "post"}, route \in AllRoutes :
        LET recorded == {r \in Req : /\ Arrived(r)
                                     /\ req[r].svc = svc /\ req[r].route = route
                                     /\ Samples(r, "count") # {}}
        IN /\ requestCounter[svc][route] = Cardinality(recorded)
           /\ responseTime[svc][route] = Cardinality(recorded)
           /\ Quiescent =>
                 requestCounter[svc][route] = Cardinality(Completed(svc, route))

\* Two requests to the same route overlapped: the second is done while the
\* handler of the first, which has recorded its samples, has not yet
\* returned; the counter and the histogram of the route hold 2.
C24_Witness ==
    /\ pc[1] = "exit" /\ pc[2] = "done"
    /\ req[1].svc = "user" /\ req[1].route = "/users" /\ req[2].route = "/users"
    /\ requestCounter["user"]["/users"] = 2
    /\ responseTime["user"]["/users"] = 2

\* What record-error and set-attribute can change of a span.
Recorded(sp) == [status |-> sp.status, desc |-> sp.desc, errors |-> sp.errors,
                 attrs |-> sp.attrs]

\* Positions in request r's log where recordError or SetAttributes was
\* invoked on span i, and where span i was ended.
InvokedAt(r, i) ==
    {k \in 1..Len(events[r]) :
        events[r][k].op \in {"record_error", "set_attributes"}
        /\ events[r][k].span = i}

EndedAt(r, i) ==
    {k \in 1..Len(events[r]) :
        events[r][k].op = "span_end" /\ events[r][k].span = i}

ListedWith(db) ==
    {r \in Req : /\ pc[r] \in {"exit", "served", "done"}
                 /\ req[r].svc = "post" /\ req[r].route = "/posts/by-user"
                 /\ req[r].db = db}

\* C26 as stated: every collaborator error that occurs while the result rows
\* are iterated (a row that does not scan, an iteration that breaks off) is
\* ignored and the handler answers 200, unless encoding the answer fails.
C26_IterationErrorsIgnored ==
    \A r \in ListedWith("scan_error") \cup ListedWith("iter_error") :
        resp[r].status = 200 \/ req[r].enc = "fail"

\* C26, amended: in the list path an error that ends the iteration
\* (rows.Next() returning false on an error) is silently ignored: the handler
\* answers 200 with what was read so far, unless encoding fails, and records
\* no error on the request's span; a query that fails and a row that does not
\* scan are surfaced as 500.
C26_OnlyRowsErrIgnored ==
    /\ \A r \in ListedWith("iter_error") :
          /\ resp[r].status = 200 \/ req[r].enc = "fail"
          /\ req[r].enc = "ok" =>
                /\ resp[r].status = 200
                /\ resp[r].body \in {"null", "[post#1]"}
          /\ ServerSpan(r).errors = 0
          /\ pc[r] \in {"exit", "served"} => ServerSpan(r).status = "Unset"
    /\ \A r \in ListedWith("query_error") \cup ListedWith("scan_error") :
          resp[r].status = 500 /\ resp[r].body = "internal server error"

\* A list request whose iteration broke off is done and was answered 200.
C26_Witness ==
    /\ pc[1] = "done" /\ 1 \in ListedWith("iter_error")
    /\ resp[1].status = 200 /\ resp[1].body = "null"
    /\ ServerSpan(1).status = "Unset"

\* The operations of the orchestrator client that have returned: getUser
\* (from orchestrateUserData or demonstrateViewsAndExemplars), getUserPosts,
\* getExternalPost.
Operations ==
    {k \in 1..Len(orch.log) :
        orch.log[k].step \in {"getUser", "getUserPosts", "getExternalPost", "demo"}}

OpLabel(step) ==
    IF step = "getExternalPost" THEN "external-api" ELSE Target(step).label

\* Number of samples of instrument op, with service attribute label, in a
\* sequence of samples.
OpsCount(ops, op, label) ==
    Cardinality({j \in 1..Len(ops) : ops[j].op = op /\ ops[j].service = label})

ClientLabels == {"user-service", "post-service", "external-api"}

\* C27: each operation of the orchestrator client (getUser, getUserPosts,
\* getExternalPost) records, on every exit path, exactly one operation-count
\* increment and one duration observation, and exactly one error-counter
\* increment when it returns an error and none when it succeeds, all under
\* its own service label; the instruments hold nothing else.
C27_ClientOperationSamples ==
    /\ \A k \in Operations :
          LET c == orch.log[k]
              l == OpLabel(c.step)
          IN /\ OpsCount(c.ops, "operation", l) = 1
             /\ OpsCount(c.ops, "duration", l) = 1
             /\ OpsCount(c.ops, "error", l) = IF c.failed THEN 1 ELSE 0
             /\ c.failed <=> ~c.err.nil
             /\ Len(c.ops) = IF c.failed THEN 3 ELSE 2
    /\ \A l \in ClientLabels :
          LET done == {k \in Operations : OpLabel(orch.log[k].step) = l}
          IN /\ OpsCount(orch.ops, "operation", l) = Cardinality(done)
             /\ OpsCount(orch.ops, "duration", l) = Cardinality(done)
             /\ OpsCount(orch.ops, "error", l) =
                   Cardinality({k \in done : orch.log[k].failed})
    /\ Len(orch.ops)
         = 2 * Cardinality(Operations)
           + Cardinality({k \in Operations : orch.log[k].failed})

\* getUser, getUserPosts and getExternalPost succeeded in orchestrateUserData
\* and a later getUser, for a user that does not exist, returned an error.
C27_Witness ==
    /\ Len(orch.log) = 6
    /\ \A k \in 1..3 : k \in Operations /\ ~orch.log[k].failed
    /\ orch.log[6].step = "demo" /\ orch.log[6].failed /\ orch.log[6].status = 404
    /\ OpsCount(orch.ops, "error", "user-service") = 1
    /\ OpsCount(orch.ops, "operation", "user-service") = 2

\* The calls of orchestrateUserData in program order.
CallOrder == <<"getUser", "getUserPosts", "getExternalPost", "userError", "postError">>

\* The calls orchestrateUserData has completed (those of
\* demonstrateViewsAndExemplars come after it has returned).
Orchestrated == {k \in 1..Len(orch.log) : orch.log[k].step # "demo"}

\* orchestrateUserData has returned.
OrchestrationOver == orch.pc \in {"demo", "fatal", "mainReturn", "exit"}

\* C28: orchestrateUserData makes its calls in the order user lookup,
\* user-posts lookup, external post, user-service error endpoint,
\* post-service error endpoint; a failure of one of the first three ends the
\* sequence with an error and no later call is made; an error from an error
\* endpoint never makes it fail; its span is ended, once, on every return
\* and not before.
C28_OrchestrationOrder ==
    /\ Orchestrated = 1..Cardinality(Orchestrated)
    /\ Cardinality(Orchestrated) <= 5
    /\ \A k \in Orchestrated : orch.log[k].step = CallOrder[k]
    /\ orch.pc \in {"getUser", "getUserPosts", "getExternalPost",
                     "userError", "postError"} =>
          orch.pc = CallOrder[Cardinality(Orchestrated) + 1]
    /\ \A k \in Orchestrated :
          IF k <= 3 /\ orch.log[k].failed
          THEN /\ Cardinality(Orchestrated) = k
               /\ orch.pc \in {"returnErr", "fatal"}
               /\ orch.phase = "idle"
               /\ orch.calls = Cardinality({j \in 1..k :
                                   orch.log[j].step # "getExternalPost"})
          ELSE k = Cardinality(Orchestrated) => orch.pc \notin {"returnErr", "fatal"}
    /\ orch.pc \in {"returnErr", "fatal"} =>
          /\ Orchestrated # {}
          /\ Cardinality(Orchestrated) <= 3
          /\ orch.log[Cardinality(Orchestrated)].failed
    /\ orch.pc \in {"return", "demo", "mainReturn", "exit"} =>
          /\ Cardinality(Orchestrated) = 5
          /\ \A k \in 1..3 : ~orch.log[k].failed
    /\ orch.ctx.span # 0 =>
          spans[orch.ctx.span].ends = IF OrchestrationOver THEN 1 ELSE 0

\* All five calls were made, both error endpoints answered with an error
\* status and callServiceIgnoreError returned an error for each, and
\* orchestrateUserData has returned nil with its span ended.
C28_Witness ==
    /\ orch.pc = "demo"
    /\ Cardinality(Orchestrated) = 5
    /\ orch.log[4].failed /\ orch.log[4].status = 500
    /\ orch.log[5].failed /\ orch.log[5].status = 503
    /\ spans[orch.ctx.span].ends = 1

\* The orchestrator process has terminated: main returned, or log.Fatalf
\* called os.Exit.
Terminated == orch.pc \in {"exit", "fatal"}

\* C29: on every exit of main, the one taken when orchestrateUserData
\* returns an error included, the main_orchestration span has been ended
\* exactly once and the tracer and meter providers have been shut down when
\* the process terminates.
C29_MainExitCleansUp ==
    Terminated =>
        /\ spans[orch.mainCtx.span].ends = 1
        /\ orch.shutdown = Providers

\* The requests of a service that have entered a handler and not returned
\* from it.
InHandler(svc) ==
    {r \in Req : req[r].svc = svc /\ pc[r] \in {"body", "exit"}}

\* Positions of the in-flight decrement and of the count / duration records
\* in request r's log.
DecAt(r) ==
    {k \in 1..Len(events[r]) : events[r][k].op = "active" /\ events[r][k].val = -1}

SampleAt(r) ==
    {k \in 1..Len(events[r]) : events[r][k].op \in {"count", "duration"}}

\* What holds of the in-flight value in both readings of C30: it equals the
\* number of requests inside a handler, it is never negative, and a
\* request's decrement comes after its count and duration records and is
\* the last thing its handler does.
InFlightIsInHandler ==
    /\ \A svc \in {"user", "post"} :
          /\ activeConnections[svc] = Cardinality(InHandler(svc))
          /\ activeConnections[svc] >= 0
    /\ \A r \in Req : \A d \in DecAt(r) :
          /\ Returned(r)
          /\ SampleAt(r) # {}
          /\ \A m \in SampleAt(r) : m < d
          /\ \A k \in (d + 1)..Len(events[r]) : events[r][k].op = "span_end"

\* C30 as stated: the in-flight value is the number of requests inside a
\* handler and never negative, and a request's decrement is the last of its
\* exit actions, after its count / duration record and after the end of its
\* span.
C30_DecrementAfterSpanEnd ==
    /\ InFlightIsInHandler
    /\ \A r \in Req : \A d \in DecAt(r) : \A e \in EndAt(r) : e < d

\* C30, amended: the in-flight value is the number of requests inside a
\* handler and never negative; a request's decrement is the last action of
\* its handler, after its count / duration record, and the request's span,
\* the server span of the otelhttp wrapper, is ended after the decrement,
\* once the handler has returned.
C30_DecrementLastInHandler ==
    /\ InFlightIsInHandler
    /\ \A r \in Req : \A d \in DecAt(r) :
          /\ \A e \in EndAt(r) : d < e
          /\ \A i \in SpansOf(r) : spans[i].by = "otelhttp"
          /\ pc[r] = "done" => EndAt(r) # {}

\* Two requests to user-service overlapped: the first is done, its decrement
\* made, the second is still running its deferred calls, and the in-flight
\* value is 1.
C30_Witness ==
    /\ pc[1] = "done" /\ pc[2] = "exit"
    /\ req[1].svc = "user"
    /\ DecAt(1) # {} /\ DecAt(2) = {}
    /\ activeConnections["user"] = 1

====
